---- MODULE Spec2Model ----
(***************************************************************************)
(* Model of the webzfs replication engine (services/zfs_replication.py)   *)
(* and of the naming validators (services/zfs_snapshot.py,                 *)
(* services/zfs_dataset.py).  Strings are sequences of one-character       *)
(* strings, so that split, rsplit and the regular expressions are          *)
(* computed character by character.                                        *)
(***************************************************************************)
EXTENDS Integers, Sequences, FiniteSets, TLC

VARIABLES
    \* ---- naming validators ----
    vName,      \* the string handed to a validator
    vCall,      \* which validator was called ("none" before the call)
    vOut,       \* "ok" (returned) or "ValueError" (raised)
    \* ---- base resolution on its own ----
    rSource,    \* source inventory handed to _find_common_snapshot
    rTarget,    \* target inventory handed to _find_common_snapshot
    rCall,      \* "none" before the call, "done" after
    rBase,      \* the value returned (<<>> is None)
    \* ---- one call of execute_replication and its surroundings ----
    platform,           \* platform.system()
    args,               \* the arguments of the call
    zfsSource,          \* snapshots zfs list -r prints for the source dataset
    zfsTarget,          \* snapshots zfs list -r prints for the target dataset
    targetExists,       \* whether zfs list <target> exits zero
    pc,                 \* position of the call
    record,             \* the execution record in storage
    statusWrites,       \* statuses written by update_execution_record, in order
    latest_snapshot,    \* local latest_snapshot
    force,              \* local force after the probe
    incremental,        \* local incremental after base resolution
    base_snapshot,      \* local base_snapshot (<<>> is None)
    send_cmd,           \* local send_cmd
    receive_cmd,        \* local receive_cmd
    procs,              \* processes started so far, with their argv
    result,             \* what the pipe executor returned
    error_message,      \* the exception caught by the handler
    notifications,      \* notifications handed to the email collaborator
    notification_log,   \* entries written by storage.log_notification
    returned,           \* the dict returned to the caller
    raised,             \* the exception that left execute_replication
    remote_listing,     \* how the ssh listing of _get_remote_snapshots ended
    \* ---- the pipe executor, process by process ----
    executor,           \* "local" or "remote": which executor runs
    xpc,                \* position of the executor
    stdout_open,        \* the parent holds send_process.stdout
    pipe,               \* chunks in the pipe between sender and receiver
    stderr_pipe,        \* chunks in the sender's stderr pipe
    send_process,       \* the sender: state, writes left, exit status
    receive_process,    \* the receiver or the ssh client: state, exit status
    xraised,            \* the exception the executor raised
    \* ---- the job registry ----
    jobs,               \* self._jobs
    issued,             \* ids uuid4 has handed out
    deleted,            \* ids handed to a delete_replication_job that returned
    jcall,              \* the last registry call and how it ended
    history,            \* self._history
    executions,         \* the completed execute_replication calls, oldest first
    jstatus,            \* what get_replication_status returned last
    \* ---- the sender argv builder on its own ----
    bArgs,              \* the arguments handed to _build_send_command
    bCall,              \* "none" before the call, "done" after
    bCmd,               \* the argv returned
    \* ---- two calls of execute_replication running side by side ----
    cTargetExists,      \* whether the target dataset exists right now
    cArgsForce,         \* the force argument of each call
    cpc,                \* position of each call
    cExecId,            \* local execution_id of each call (0 before it is set)
    cForce,             \* local force of each call after the probe
    cReceiveCmd,        \* local receive_cmd of each call
    cReceiver,          \* the receiver of each call: state and exit status
    cExistsAtStart,     \* whether the target existed when the receiver started
    cRecords            \* the execution records in storage, by id

valVars == <<vName, vCall, vOut>>
resVars == <<rSource, rTarget, rCall, rBase>>
envVars == <<platform, args, zfsSource, zfsTarget, targetExists>>
repVars == <<pc, record, statusWrites, latest_snapshot, force, incremental,
             base_snapshot, send_cmd, receive_cmd, procs, result, error_message,
             notifications, notification_log, returned, raised, remote_listing>>
pipeVars == <<executor, xpc, stdout_open, pipe, stderr_pipe, send_process,
              receive_process, xraised>>
jobVars == <<jobs, issued, deleted, jcall, history, executions, jstatus>>
buildVars == <<bArgs, bCall, bCmd>>
concVars == <<cTargetExists, cArgsForce, cpc, cExecId, cForce, cReceiveCmd,
              cReceiver, cExistsAtStart, cRecords>>
vars == <<valVars, resVars, envVars, repVars, pipeVars, jobVars, buildVars, concVars>>

\* -------------------------------------------------------------------------
\* Bounds
\* -------------------------------------------------------------------------
MaxNameLen == 4     \* longest string handed to a validator
MaxInv == 2         \* longest target inventory; the source may hold one more
MaxZfsSource == 2   \* most snapshots under the source dataset during a call
MaxZfsTarget == 1   \* most snapshots under the target dataset during a call
PipeCapacity == 1   \* chunks a pipe holds before a write on it blocks
MaxWrites == 3      \* most chunks the sender writes, both streams together
MaxJobs == 2        \* most ids uuid4 hands out
MaxExecutions == 3  \* most execute_replication calls made for jobs

\* -------------------------------------------------------------------------
\* Characters and strings
\* -------------------------------------------------------------------------
NL == "\n"
AlnumChars == {"d", "t", "c", "1", "2", "3"}
PunctChars == {"_", "-", ".", ":"}
NameChars == AlnumChars \cup PunctChars

\* the alphabet the validator inputs are drawn from
ValChars == {"d", "_", "/", "@", NL, ";"}

RECURSIVE StringsUpTo(_, _)
StringsUpTo(chars, n) ==
    IF n = 0 THEN {<<>>}
    ELSE LET shorter == StringsUpTo(chars, n - 1)
         IN  shorter \cup {Append(s, c) : s \in {t \in shorter : Len(t) = n - 1}, c \in chars}

Contains(s, c) == \E i \in 1..Len(s) : s[i] = c

\* str.find: index of the first c in s, 0 when absent
RECURSIVE FindFrom(_, _, _)
FindFrom(s, c, i) ==
    IF i > Len(s) THEN 0
    ELSE IF s[i] = c THEN i
    ELSE FindFrom(s, c, i + 1)

\* str.split(sep): the list of the parts between the separators
RECURSIVE split(_, _)
split(s, sep) ==
    LET k == FindFrom(s, sep, 1)
    IN  IF k = 0 THEN <<s>>
        ELSE <<SubSeq(s, 1, k - 1)>> \o split(SubSeq(s, k + 1, Len(s)), sep)

\* str.rfind: index of the last c in s, 0 when absent
RECURSIVE RFindFrom(_, _, _)
RFindFrom(s, c, i) ==
    IF i < 1 THEN 0
    ELSE IF s[i] = c THEN i
    ELSE RFindFrom(s, c, i - 1)

\* str.rsplit(sep, 1): split once, at the last separator
rsplit1(s, sep) ==
    LET k == RFindFrom(s, sep, Len(s))
    IN  IF k = 0 THEN <<s>>
        ELSE <<SubSeq(s, 1, k - 1), SubSeq(s, k + 1, Len(s))>>

\* -------------------------------------------------------------------------
\* services/zfs_snapshot.py and services/zfs_dataset.py: the validators
\* -------------------------------------------------------------------------

\* re '$' without MULTILINE: at the end of the string, or just before a
\* newline that is the last character of the string
AtDollar(s, i) == i > Len(s) \/ (i = Len(s) /\ s[i] = NL)

\* the rest of ^[A][B]*(/[A][B]*)*$ from position i, after a first [A]
RECURSIVE DatasetTail(_, _)
DatasetTail(s, i) ==
    IF AtDollar(s, i) THEN TRUE
    ELSE IF s[i] \in NameChars THEN DatasetTail(s, i + 1)
    ELSE IF s[i] = "/" /\ i + 1 <= Len(s) /\ s[i + 1] \in AlnumChars
         THEN DatasetTail(s, i + 2)
    ELSE FALSE

\* ZFS_DATASET_NAME_PATTERN.match(s)
ZFS_DATASET_NAME_PATTERN(s) ==
    Len(s) >= 1 /\ s[1] \in AlnumChars /\ DatasetTail(s, 2)

\* the rest of ^[A][B]*$ from position i, after the first [A]
RECURSIVE SnapshotTail(_, _)
SnapshotTail(s, i) ==
    IF AtDollar(s, i) THEN TRUE
    ELSE IF s[i] \in NameChars THEN SnapshotTail(s, i + 1)
    ELSE FALSE

\* ZFS_SNAPSHOT_NAME_PATTERN.match(s)
ZFS_SNAPSHOT_NAME_PATTERN(s) ==
    Len(s) >= 1 /\ s[1] \in AlnumChars /\ SnapshotTail(s, 2)

\* ZFSSnapshotService.validate_dataset_name: TRUE when it returns,
\* FALSE when it raises ValueError
validate_dataset_name(s) ==
    IF s = <<>> THEN FALSE
    ELSE ZFS_DATASET_NAME_PATTERN(s)

\* ZFSDatasetService.validate_dataset_name (same body, its own pattern object)
ds_validate_dataset_name(s) ==
    IF s = <<>> THEN FALSE
    ELSE ZFS_DATASET_NAME_PATTERN(s)

\* ZFSSnapshotService.validate_snapshot_name (the part after '@')
validate_snapshot_name(s) ==
    IF s = <<>> THEN FALSE
    ELSE ZFS_SNAPSHOT_NAME_PATTERN(s)

\* ZFSSnapshotService.validate_full_snapshot_name
validate_full_snapshot_name(s) ==
    IF ~Contains(s, "@") THEN FALSE
    ELSE LET halves == rsplit1(s, "@")
         IN  validate_dataset_name(halves[1]) /\ validate_snapshot_name(halves[2])

\* the rest of ^[A][B]*(/[A][B]*)*@[A][B]*$ from position i, after a first [A]
RECURSIVE SnapshotFullTail(_, _)
SnapshotFullTail(s, i) ==
    IF i > Len(s) THEN FALSE
    ELSE IF s[i] \in NameChars THEN SnapshotFullTail(s, i + 1)
    ELSE IF s[i] = "/" /\ i + 1 <= Len(s) /\ s[i + 1] \in AlnumChars
         THEN SnapshotFullTail(s, i + 2)
    ELSE IF s[i] = "@" /\ i + 1 <= Len(s) /\ s[i + 1] \in AlnumChars
         THEN SnapshotTail(s, i + 2)
    ELSE FALSE

\* ZFS_SNAPSHOT_FULL_PATTERN.match(s)
ZFS_SNAPSHOT_FULL_PATTERN(s) ==
    Len(s) >= 1 /\ s[1] \in AlnumChars /\ SnapshotFullTail(s, 2)

\* ZFSDatasetService.validate_snapshot_name (the full name, one pattern)
ds_validate_snapshot_name(s) ==
    IF s = <<>> THEN FALSE
    ELSE IF ~Contains(s, "@") THEN FALSE
    ELSE ZFS_SNAPSHOT_FULL_PATTERN(s)

Outcome(ok) == IF ok THEN "ok" ELSE "ValueError"

ValInit ==
    /\ vName \in StringsUpTo(ValChars, MaxNameLen)
    /\ vCall = "none"
    /\ vOut = "none"

CallValidateDatasetName ==
    /\ vCall = "none"
    /\ vCall' = "validate_dataset_name"
    /\ vOut' = Outcome(validate_dataset_name(vName))
    /\ UNCHANGED <<vName, resVars, envVars, repVars, pipeVars, jobVars, buildVars, concVars>>

CallDsValidateDatasetName ==
    /\ vCall = "none"
    /\ vCall' = "ds_validate_dataset_name"
    /\ vOut' = Outcome(ds_validate_dataset_name(vName))
    /\ UNCHANGED <<vName, resVars, envVars, repVars, pipeVars, jobVars, buildVars, concVars>>

CallValidateSnapshotName ==
    /\ vCall = "none"
    /\ vCall' = "validate_snapshot_name"
    /\ vOut' = Outcome(validate_snapshot_name(vName))
    /\ UNCHANGED <<vName, resVars, envVars, repVars, pipeVars, jobVars, buildVars, concVars>>

CallValidateFullSnapshotName ==
    /\ vCall = "none"
    /\ vCall' = "validate_full_snapshot_name"
    /\ vOut' = Outcome(validate_full_snapshot_name(vName))
    /\ UNCHANGED <<vName, resVars, envVars, repVars, pipeVars, jobVars, buildVars, concVars>>

CallDsValidateSnapshotName ==
    /\ vCall = "none"
    /\ vCall' = "ds_validate_snapshot_name"
    /\ vOut' = Outcome(ds_validate_snapshot_name(vName))
    /\ UNCHANGED <<vName, resVars, envVars, repVars, pipeVars, jobVars, buildVars, concVars>>

ValNext ==
    \/ CallValidateDatasetName
    \/ CallDsValidateDatasetName
    \/ CallValidateSnapshotName
    \/ CallValidateFullSnapshotName
    \/ CallDsValidateSnapshotName

\* -------------------------------------------------------------------------
\* The naming grammar as the data model states it, component by component
\* -------------------------------------------------------------------------
ComponentOK(c) ==
    /\ c # <<>>
    /\ c[1] \in AlnumChars
    /\ \A i \in 1..Len(c) : c[i] \in NameChars

DatasetGrammar(s) ==
    /\ s # <<>>
    /\ LET comps == split(s, "/")
       IN  \A i \in 1..Len(comps) : ComponentOK(comps[i])

CountOf(s, c) == Cardinality({i \in 1..Len(s) : s[i] = c})

FullSnapshotGrammar(s) ==
    /\ CountOf(s, "@") = 1
    /\ LET k == RFindFrom(s, "@", Len(s))
       IN  /\ DatasetGrammar(SubSeq(s, 1, k - 1))
           /\ ComponentOK(SubSeq(s, k + 1, Len(s)))

\* C8: validate_dataset_name(s) succeeds if and only if s is non-empty and
\* every '/'-separated component of s is non-empty, starts with an
\* alphanumeric character and holds only alphanumerics and _ - . : (so no
\* accepted name holds '@' or a newline).
C8_DatasetValidatorIsGrammar ==
    vCall \in {"validate_dataset_name", "ds_validate_dataset_name"}
        => (vOut = "ok" <=> DatasetGrammar(vName))

\* C9: validate_full_snapshot_name(s) succeeds if and only if s holds exactly
\* one '@', the part before it is a valid dataset identifier and the part
\* after it is a valid snapshot name.
C9_FullSnapshotValidatorIsGrammar ==
    vCall = "validate_full_snapshot_name"
        => (vOut = "ok" <=> FullSnapshotGrammar(vName))

\* -------------------------------------------------------------------------
\* services/zfs_replication.py: _find_common_snapshot on given inventories
\* -------------------------------------------------------------------------

\* the set built by "if '@' in snap: names.add(snap.split('@')[1])"
SnapNames(snapshots) ==
    {split(snapshots[i], "@")[2] :
        i \in {j \in 1..Len(snapshots) : Contains(snapshots[j], "@")}}

\* "for snap in reversed(source_snapshots)": the first hit from index i down
RECURSIVE ScanReversed(_, _, _)
ScanReversed(source_snapshots, common_snaps, i) ==
    IF i < 1 THEN <<>>
    ELSE IF /\ Contains(source_snapshots[i], "@")
            /\ split(source_snapshots[i], "@")[2] \in common_snaps
         THEN source_snapshots[i]
    ELSE ScanReversed(source_snapshots, common_snaps, i - 1)

\* a resolver that scans the source list from its start
RECURSIVE ScanForward(_, _, _)
ScanForward(source_snapshots, common_snaps, i) ==
    IF i > Len(source_snapshots) THEN <<>>
    ELSE IF /\ Contains(source_snapshots[i], "@")
            /\ split(source_snapshots[i], "@")[2] \in common_snaps
         THEN source_snapshots[i]
    ELSE ScanForward(source_snapshots, common_snaps, i + 1)

find_common_snapshot_forward(source_snapshots, target_snapshots) ==
    LET common_snaps == SnapNames(source_snapshots) \cap SnapNames(target_snapshots)
    IN  IF common_snaps = {} THEN <<>>
        ELSE ScanForward(source_snapshots, common_snaps, 1)

\* a resolver that returns snap_name instead of snap
find_common_snapshot_bare(source_snapshots, target_snapshots) ==
    LET common_snaps == SnapNames(source_snapshots) \cap SnapNames(target_snapshots)
        hit == ScanReversed(source_snapshots, common_snaps, Len(source_snapshots))
    IN  IF common_snaps = {} \/ hit = <<>> THEN <<>>
        ELSE split(hit, "@")[2]

\* a resolver that takes the newest source snapshot whatever the target holds
find_common_snapshot_any(source_snapshots, target_snapshots) ==
    IF source_snapshots = <<>> THEN <<>>
    ELSE source_snapshots[Len(source_snapshots)]

\* _find_common_snapshot once both listings are in hand; <<>> is None
find_common_snapshot(source_snapshots, target_snapshots) ==
    LET source_snap_names == SnapNames(source_snapshots)
        target_snap_names == SnapNames(target_snapshots)
        common_snaps == source_snap_names \cap target_snap_names
    IN  IF source_snap_names = {} THEN <<>>
        ELSE IF common_snaps = {} THEN <<>>
        ELSE ScanReversed(source_snapshots, common_snaps, Len(source_snapshots))

\* snapshot identifiers as zfs list prints them
Snap(dataset, name) == dataset \o <<"@">> \o <<name>>
SnapTags == {"1", "2", "3"}
SourceDataset == <<"d">>
ChildDataset == <<"d", "/", "c">>
TargetDataset == <<"t">>

RECURSIVE ListsUpTo(_, _)
\* the sequences without repetition of at most n elements of pool
ListsUpTo(pool, n) ==
    IF n = 0 THEN {<<>>}
    ELSE LET shorter == ListsUpTo(pool, n - 1)
         IN  shorter \cup
             {Append(l, e) : l \in {t \in shorter : Len(t) = n - 1},
                             e \in pool} 

NoRepeat(l) == \A i, j \in 1..Len(l) : i # j => l[i] # l[j]

\* zfs list -r prints the snapshots of a dataset before those of its children
ParentFirst(l) ==
    \A i, j \in 1..Len(l) :
        (split(l[i], "@")[1] = ChildDataset /\ split(l[j], "@")[1] = SourceDataset)
            => j < i

SourceInventories ==
    {l \in ListsUpTo({Snap(SourceDataset, n) : n \in SnapTags}
                        \cup {Snap(ChildDataset, "1")}, MaxInv + 1) :
        NoRepeat(l) /\ ParentFirst(l)}

TargetInventories ==
    {l \in ListsUpTo({Snap(TargetDataset, n) : n \in SnapTags}, MaxInv) : NoRepeat(l)}

ResInit ==
    /\ rSource \in SourceInventories
    /\ rTarget \in TargetInventories
    /\ rCall = "none"
    /\ rBase = <<>>

ResolveBase ==
    /\ rCall = "none"
    /\ rCall' = "done"
    /\ rBase' = find_common_snapshot(rSource, rTarget)
    /\ UNCHANGED <<rSource, rTarget, valVars, envVars, repVars, pipeVars, jobVars, buildVars, concVars>>

ResNext == ResolveBase

ResIdle ==
    /\ rSource = <<>>
    /\ rTarget = <<>>
    /\ rCall = "idle"
    /\ rBase = <<>>

ValIdle ==
    /\ vName = <<>>
    /\ vCall = "idle"
    /\ vOut = "none"

\* the part of an identifier after its '@'
BareName(e) == SubSeq(e, RFindFrom(e, "@", Len(e)) + 1, Len(e))
BareNames(l) == {BareName(l[i]) : i \in 1..Len(l)}

\* C4: a base that is returned is the last entry of the source inventory
\* whose bare name also occurs in the target inventory: it is an entry of the
\* source, its bare name is on both sides, and no later source entry is common.
C4_BaseIsLastCommon ==
    (rCall = "done" /\ rBase # <<>>) =>
        \E i \in 1..Len(rSource) :
            /\ rSource[i] = rBase
            /\ BareName(rBase) \in BareNames(rSource) \cap BareNames(rTarget)
            /\ \A j \in (i + 1)..Len(rSource) :
                   BareName(rSource[j]) \notin BareNames(rTarget)

C4_Witness ==
    /\ rCall = "done"
    /\ rBase # <<>>
    /\ Len(rSource) >= 2
    /\ rBase # rSource[Len(rSource)]
    /\ rBase # rSource[1]

\* C5 as stated: the value returned by base resolution is the bare snapshot
\* name, without the dataset prefix (s2, not d@s2).
C5_BaseIsBareName ==
    (rCall = "done" /\ rBase # <<>>) => ~Contains(rBase, "@")

\* C5 as amended: the value returned is the full snapshot identifier of the
\* source entry (dataset, '@', name), whose name part is the common name.
C5_BaseIsFullSourceIdentifier ==
    (rCall = "done" /\ rBase # <<>>) =>
        /\ Contains(rBase, "@")
        /\ split(rBase, "@")[1] \in {SourceDataset, ChildDataset}
        /\ BareName(rBase) \in BareNames(rTarget)

C5_Witness ==
    /\ rCall = "done"
    /\ rSource = <<Snap(SourceDataset, "1"), Snap(SourceDataset, "2"), Snap(SourceDataset, "3")>>
    /\ rTarget = <<Snap(TargetDataset, "1"), Snap(TargetDataset, "2")>>
    /\ rBase = Snap(SourceDataset, "2")

\* -------------------------------------------------------------------------
\* services/utils.py and the command lines of services/zfs_replication.py
\* -------------------------------------------------------------------------
ZFS == <<"z", "f", "s">>
SUDO == <<"s", "u", "d", "o">>
SSH == <<"s", "s", "h">>
LIST == <<"l", "i", "s", "t">>
SEND == <<"s", "e", "n", "d">>
RECEIVE == <<"r", "e", "c", "e", "i", "v", "e">>
SNAPSHOT == <<"s", "n", "a", "p", "s", "h", "o", "t">>
NAME == <<"n", "a", "m", "e">>
FlagT == <<"-", "t">>
FlagH == <<"-", "H">>
FlagO == <<"-", "o">>
FlagSmallR == <<"-", "r">>
FlagR == <<"-", "R">>
FlagC == <<"-", "c">>
FlagW == <<"-", "w">>
FlagI == <<"-", "i">>
FlagF == <<"-", "F">>
FlagP == <<"-", "p">>
DefaultPort == <<"2", "2">>
RemoteHost == <<"h">>
OptStrictHostKey == <<"StrictHostKeyChecking=no">>
OptKnownHosts == <<"UserKnownHostsFile=/dev/null">>
OptBatchMode == <<"BatchMode=yes">>
OptConnectTimeout == <<"ConnectTimeout=10">>

Range(f) == {f[i] : i \in DOMAIN f}

\* needs_sudo_for_zfs
needs_sudo_for_zfs == platform = "Linux"

\* build_zfs_command with use_sudo=None
build_zfs_command(cmd) ==
    IF needs_sudo_for_zfs THEN <<SUDO>> \o cmd ELSE cmd

\* the argv of _get_snapshots
ListSnapshotsCmd(dataset) ==
    <<ZFS, LIST, FlagT, SNAPSHOT, FlagH, FlagO, NAME, FlagSmallR, dataset>>

\* the argv of _check_target_exists
ProbeCmd(target) == <<ZFS, LIST, FlagH, target>>

\* the argv of _get_remote_snapshots (no ssh_key option is passed)
RemoteListCmd(dataset) ==
    <<SSH, FlagP, DefaultPort, FlagO, OptStrictHostKey, FlagO, OptKnownHosts,
      FlagO, OptBatchMode, FlagO, OptConnectTimeout, RemoteHost>>
        \o ListSnapshotsCmd(dataset)

\* what the listing driver does for a dataset: exit status and output lines
\* (the output ends with a newline, so its split has a last empty line)
ZfsListSnapshots(dataset) ==
    IF dataset = SourceDataset
    THEN [returncode |-> 0, lines |-> zfsSource \o << <<>> >>]
    ELSE IF dataset = TargetDataset /\ targetExists
    THEN [returncode |-> 0, lines |-> zfsTarget \o << <<>> >>]
    ELSE [returncode |-> 1, lines |-> << <<>> >>]

NonEmptyLine(l) == l # <<>>

\* _get_snapshots once the driver has run: CalledProcessError gives []
get_snapshots(dataset) ==
    LET run == ZfsListSnapshots(dataset)
    IN  IF run.returncode # 0 THEN <<>>
        ELSE SelectSeq(run.lines, NonEmptyLine)

\* how subprocess.run of the ssh listing can end: exit status zero, a
\* non-zero exit status (authentication failure, no such dataset), or an
\* exception (TimeoutExpired after 30 seconds, OSError)
RemoteListingFailures == {"nonzero", "exception"}
RemoteListingOutcomes(dataset) ==
    IF ZfsListSnapshots(dataset).returncode = 0
    THEN {"returncode0"} \cup RemoteListingFailures
    ELSE RemoteListingFailures

\* _get_remote_snapshots: no remote_host gives [], an exception gives [],
\* a non-zero exit status gives [], otherwise the non-empty lines
get_remote_snapshots(dataset, remote_host, outcome) ==
    IF ~remote_host THEN <<>>
    ELSE IF outcome = "exception" THEN <<>>
    ELSE IF outcome = "returncode0"
    THEN SelectSeq(ZfsListSnapshots(dataset).lines, NonEmptyLine)
    ELSE <<>>

\* _check_target_exists once the driver has run
check_target_exists(target) == target = TargetDataset /\ targetExists

\* a sender builder that looks at the base only
build_send_command_base_only(dataset, snapshot, incr, recursive, compression, base) ==
    <<ZFS, SEND>>
        \o (IF recursive THEN <<FlagR>> ELSE <<>>)
        \o (IF compression # "none" THEN <<FlagC, FlagW>> ELSE <<>>)
        \o (IF base # <<>> THEN <<FlagI, base>> ELSE <<>>)
        \o <<snapshot>>

\* _build_send_command
build_send_command(dataset, snapshot, incr, recursive, compression, base) ==
    <<ZFS, SEND>>
        \o (IF recursive THEN <<FlagR>> ELSE <<>>)
        \o (IF compression # "none" THEN <<FlagC, FlagW>> ELSE <<>>)
        \o (IF incr /\ base # <<>> THEN <<FlagI, base>> ELSE <<>>)
        \o <<snapshot>>

\* a receive builder that always forces
build_receive_command_forced(target, replication_type, options_force) ==
    <<ZFS, RECEIVE, FlagF, target>>

\* _build_receive_command; options_force is options.get('force', False)
build_receive_command(target, replication_type, options_force) ==
    <<ZFS, RECEIVE>>
        \o (IF options_force THEN <<FlagF>> ELSE <<>>)
        \o <<target>>

\* the ssh argv of _execute_remote_replication (no ssh_key option is passed)
build_ssh_command(recv_cmd) ==
    <<SSH, FlagP, DefaultPort, RemoteHost>> \o recv_cmd

\* -------------------------------------------------------------------------
\* execute_replication
\* -------------------------------------------------------------------------
ExecutionId == 1

Sources == {SourceDataset, Snap(SourceDataset, "1"), Snap(SourceDataset, ";")}
Targets == {TargetDataset, <<";">>}
ReplicationTypes == {"local", "push", "pull"}
Compressions == {"none", "lz4"}
ForceValues == {"None", "True", "False"}
StderrTexts == {"", "cannot receive: destination exists, use -F"}

ArgSets ==
    [source : Sources, target : Targets, replication_type : ReplicationTypes,
     incremental : BOOLEAN, recursive : BOOLEAN, compression : Compressions,
     force : ForceValues, remote_host : BOOLEAN]

ZfsSourceInventories ==
    {l \in ListsUpTo({Snap(SourceDataset, n) : n \in {"1", "2"}}
                        \cup {Snap(ChildDataset, "1")}, MaxZfsSource) :
        NoRepeat(l) /\ ParentFirst(l)}

ZfsTargetInventories ==
    {l \in ListsUpTo({Snap(TargetDataset, n) : n \in {"1", "2"}}, MaxZfsTarget) :
        NoRepeat(l)}

NoMsg == [prefix |-> "", detail |-> ""]
Msg(prefix, detail) == [prefix |-> prefix, detail |-> detail]

NoRecord == [status |-> "absent", error_message |-> NoMsg, snapshot_name |-> <<>>]
NoReturn == [status |-> "none", error |-> NoMsg, execution_id |-> 0]
NoResult == [set |-> FALSE, log_output |-> ""]

Proc(role, argv) == [role |-> role, argv |-> argv]

RepStart ==
    /\ pc = "create"
    /\ record = NoRecord
    /\ statusWrites = <<>>
    /\ latest_snapshot = <<>>
    /\ force = FALSE
    /\ incremental = args.incremental
    /\ base_snapshot = <<>>
    /\ send_cmd = <<>>
    /\ receive_cmd = <<>>
    /\ procs = <<>>
    /\ result = NoResult
    /\ error_message = NoMsg
    /\ notifications = <<>>
    /\ notification_log = <<>>
    /\ returned = NoReturn
    /\ raised = NoMsg
    /\ remote_listing = "none"

RepInit ==
    /\ platform \in {"Linux", "FreeBSD"}
    /\ args \in ArgSets
    /\ args.replication_type = "local" => ~args.remote_host
    /\ zfsSource \in ZfsSourceInventories
    /\ zfsTarget \in ZfsTargetInventories
    /\ targetExists \in BOOLEAN
    /\ zfsTarget # <<>> => targetExists
    /\ RepStart

\* an exception raised inside the try block reaches the except clause
Caught(msg) ==
    /\ pc' = "except"
    /\ error_message' = msg

\* an exception raised outside the try block, or inside the except clause,
\* leaves execute_replication
Propagates(msg) ==
    /\ pc' = "done"
    /\ raised' = msg

\* storage.create_execution_record (lines 220-226)
CreateRecord ==
    /\ pc = "create"
    /\ \E outcome \in {"ok", "raise"} :
        IF outcome = "ok"
        THEN /\ record' = [NoRecord EXCEPT !.status = "running"]
             /\ pc' = "select"
             /\ UNCHANGED raised
        ELSE /\ Propagates(Msg("storage", "create_execution_record"))
             /\ UNCHANGED record
    /\ UNCHANGED <<statusWrites, latest_snapshot, force, incremental, base_snapshot,
                   send_cmd, receive_cmd, procs, result, error_message,
                   notifications, notification_log, returned>>
    /\ UNCHANGED <<remote_listing, envVars, valVars, resVars, pipeVars, jobVars, buildVars, concVars>>

\* lines 229-240: the snapshot to send
SelectSnapshot ==
    /\ pc = "select"
    /\ IF Contains(args.source, "@")
       THEN /\ latest_snapshot' = args.source
            /\ pc' = "probe"
            /\ UNCHANGED <<procs, error_message>>
       ELSE \E outcome \in {"run", "oserror"} :
            IF outcome = "oserror"
            THEN /\ Caught(Msg("OSError", "zfs list"))
                 /\ UNCHANGED <<procs, latest_snapshot>>
            ELSE LET snapshots == get_snapshots(args.source)
                 IN  /\ procs' = Append(procs,
                            Proc("list", build_zfs_command(ListSnapshotsCmd(args.source))))
                     /\ IF snapshots = <<>>
                        THEN /\ Caught(Msg("No snapshots found for ", "<source>"))
                             /\ UNCHANGED latest_snapshot
                        ELSE /\ latest_snapshot' = snapshots[Len(snapshots)]
                             /\ pc' = "probe"
                             /\ UNCHANGED error_message
    /\ UNCHANGED <<record, statusWrites, force, incremental, base_snapshot, send_cmd,
                   receive_cmd, result, notifications, notification_log,
                   returned, raised>>
    /\ UNCHANGED <<remote_listing, envVars, valVars, resVars, pipeVars, jobVars, buildVars, concVars>>

\* lines 242-248: the force value, probed when the caller gave none
ProbeTarget ==
    /\ pc = "probe"
    /\ IF args.force = "None"
       THEN \E outcome \in {"run", "oserror"} :
            IF outcome = "oserror"
            THEN /\ Caught(Msg("OSError", "zfs list"))
                 /\ UNCHANGED <<procs, force>>
            ELSE /\ procs' = Append(procs,
                        Proc("probe", build_zfs_command(ProbeCmd(args.target))))
                 /\ force' = check_target_exists(args.target)
                 /\ pc' = "resolve"
                 /\ UNCHANGED error_message
       ELSE /\ force' = (args.force = "True")
            /\ pc' = "resolve"
            /\ UNCHANGED <<procs, error_message>>
    /\ UNCHANGED <<record, statusWrites, latest_snapshot, incremental, base_snapshot,
                   send_cmd, receive_cmd, result, notifications, notification_log,
                   returned, raised>>
    /\ UNCHANGED <<remote_listing, envVars, valVars, resVars, pipeVars, jobVars, buildVars, concVars>>

\* line 582: the dataset part of the source argument
SourceDatasetOf(source) ==
    IF Contains(source, "@") THEN split(source, "@")[1] ELSE source

\* a target listing whose remote probe escalates its failures
TargetListing_escalating(outcome) ==
    IF args.replication_type = "local"
    THEN [raises |-> outcome = "oserror",
          snapshots |-> get_snapshots(args.target),
          started |-> IF outcome = "oserror" THEN <<>>
                      ELSE <<Proc("list", build_zfs_command(ListSnapshotsCmd(args.target)))>>,
          remote |-> "none"]
    ELSE [raises |-> outcome # "returncode0",
          snapshots |-> get_remote_snapshots(args.target, args.remote_host, outcome),
          started |-> IF outcome = "no_host" THEN <<>>
                      ELSE <<Proc("remote_list", RemoteListCmd(args.target))>>,
          remote |-> outcome]

\* lines 596-602: the target listing of _find_common_snapshot; outcome is
\* "run" or "oserror" for the local listing, "no_host" or one of the
\* outcomes of the ssh listing for the remote one
TargetListing(outcome) ==
    IF args.replication_type = "local"
    THEN [raises |-> outcome = "oserror",
          snapshots |-> get_snapshots(args.target),
          started |-> IF outcome = "oserror" THEN <<>>
                      ELSE <<Proc("list", build_zfs_command(ListSnapshotsCmd(args.target)))>>,
          remote |-> "none"]
    ELSE [raises |-> FALSE,
          snapshots |-> get_remote_snapshots(args.target, args.remote_host, outcome),
          started |-> IF outcome = "no_host" THEN <<>>
                      ELSE <<Proc("remote_list", RemoteListCmd(args.target))>>,
          remote |-> outcome]

TargetOutcomes ==
    IF args.replication_type = "local" THEN {"run", "oserror"}
    ELSE IF ~args.remote_host THEN {"no_host"}
    ELSE RemoteListingOutcomes(args.target)

\* lines 250-256 with _find_common_snapshot (lines 564-624)
FindBase ==
    /\ pc = "resolve"
    /\ IF ~args.incremental
       THEN /\ pc' = "build"
            /\ UNCHANGED <<base_snapshot, incremental, procs, error_message,
                           remote_listing>>
       ELSE \E so \in {"run", "oserror"} :
            IF so = "oserror"
            THEN /\ Caught(Msg("OSError", "zfs list"))
                 /\ UNCHANGED <<base_snapshot, incremental, procs, remote_listing>>
            ELSE LET source_dataset == SourceDatasetOf(args.source)
                     source_snapshots == get_snapshots(source_dataset)
                     listed == Append(procs,
                         Proc("list", build_zfs_command(ListSnapshotsCmd(source_dataset))))
                 IN  IF SnapNames(source_snapshots) = {}
                     THEN /\ base_snapshot' = <<>>
                          /\ incremental' = FALSE
                          /\ procs' = listed
                          /\ pc' = "build"
                          /\ UNCHANGED <<error_message, remote_listing>>
                     ELSE \E to \in TargetOutcomes :
                          LET tl == TargetListing(to)
                              base == find_common_snapshot(source_snapshots, tl.snapshots)
                          IN  /\ procs' = listed \o tl.started
                              /\ remote_listing' = tl.remote
                              /\ IF tl.raises
                                 THEN /\ Caught(Msg("OSError", "zfs list"))
                                      /\ UNCHANGED <<base_snapshot, incremental>>
                                 ELSE /\ base_snapshot' = base
                                      /\ incremental' = (base # <<>>)
                                      /\ pc' = "build"
                                      /\ UNCHANGED error_message
    /\ UNCHANGED <<record, statusWrites, latest_snapshot, force, send_cmd, receive_cmd,
                   result, notifications, notification_log, returned, raised>>
    /\ UNCHANGED <<envVars, valVars, resVars, pipeVars, jobVars, buildVars, concVars>>

\* lines 258-267: both command lines
BuildCommands ==
    /\ pc = "build"
    /\ send_cmd' = build_send_command(args.source, latest_snapshot, incremental,
                       args.recursive, args.compression, base_snapshot)
    /\ receive_cmd' = build_receive_command(args.target, args.replication_type, force)
    /\ pc' = "start_send"
    /\ UNCHANGED <<record, statusWrites, latest_snapshot, force, incremental,
                   base_snapshot, procs, result, error_message, notifications,
                   notification_log, returned, raised>>
    /\ UNCHANGED <<remote_listing, envVars, valVars, resVars, pipeVars, jobVars, buildVars, concVars>>

IsLocal == args.replication_type = "local"

\* lines 725-732 and 756-779: the sender is started
StartSender ==
    /\ pc = "start_send"
    /\ IF ~IsLocal /\ ~args.remote_host
       THEN /\ Caught(Msg("remote_host required for remote replication", ""))
            /\ UNCHANGED procs
       ELSE \E outcome \in {"started", "oserror"} :
            IF outcome = "oserror"
            THEN /\ Caught(Msg("OSError", "zfs send"))
                 /\ UNCHANGED procs
            ELSE /\ procs' = Append(procs, Proc("send", build_zfs_command(send_cmd)))
                 /\ pc' = "start_receive"
                 /\ UNCHANGED error_message
    /\ UNCHANGED <<record, statusWrites, latest_snapshot, force, incremental,
                   base_snapshot, send_cmd, receive_cmd, result, notifications,
                   notification_log, returned, raised>>
    /\ UNCHANGED <<remote_listing, envVars, valVars, resVars, pipeVars, jobVars, buildVars, concVars>>

\* lines 734-741 and 781-788: the receiver (or the ssh client carrying it) is
\* started on the sender's output and the parent's handle on it is closed
StartReceiver ==
    /\ pc = "start_receive"
    /\ \E outcome \in {"started", "oserror"} :
        IF outcome = "oserror"
        THEN /\ Caught(Msg("OSError", "receiver"))
             /\ UNCHANGED procs
        ELSE /\ procs' = Append(procs,
                    IF IsLocal THEN Proc("receive", build_zfs_command(receive_cmd))
                    ELSE Proc("ssh", build_ssh_command(receive_cmd)))
             /\ pc' = "wait"
             /\ UNCHANGED error_message
    /\ UNCHANGED <<record, statusWrites, latest_snapshot, force, incremental,
                   base_snapshot, send_cmd, receive_cmd, result, notifications,
                   notification_log, returned, raised>>
    /\ UNCHANGED <<remote_listing, envVars, valVars, resVars, pipeVars, jobVars, buildVars, concVars>>

\* a receiver wait that starts the transfer again after a failure
WaitReceiver_retry ==
    /\ pc = "wait"
    /\ \E returncode \in {0, 1}, stderr \in StderrTexts :
        IF returncode # 0
        THEN /\ pc' = "start_send"
             /\ UNCHANGED <<result, error_message>>
        ELSE /\ result' = [set |-> TRUE, log_output |-> stderr]
             /\ pc' = "record_success"
             /\ UNCHANGED error_message
    /\ Len(procs) < 8
    /\ UNCHANGED <<record, statusWrites, latest_snapshot, force, incremental,
                   base_snapshot, send_cmd, receive_cmd, procs, notifications,
                   notification_log, returned, raised>>
    /\ UNCHANGED <<remote_listing, envVars, valVars, resVars, pipeVars, jobVars, buildVars, concVars>>

\* lines 742-749 and 789-796: communicate() and the exit status of the
\* receiver (or of the ssh client)
WaitReceiver ==
    /\ pc = "wait"
    /\ \E returncode \in {0, 1}, stderr \in StderrTexts :
        IF returncode # 0
        THEN /\ Caught(Msg(IF IsLocal THEN "Receive failed: "
                                      ELSE "Remote receive failed: ", stderr))
             /\ UNCHANGED result
        ELSE /\ result' = [set |-> TRUE, log_output |-> stderr]
             /\ pc' = "record_success"
             /\ UNCHANGED error_message
    /\ UNCHANGED <<record, statusWrites, latest_snapshot, force, incremental,
                   base_snapshot, send_cmd, receive_cmd, procs, notifications,
                   notification_log, returned, raised>>
    /\ UNCHANGED <<remote_listing, envVars, valVars, resVars, pipeVars, jobVars, buildVars, concVars>>

\* storage.update_execution_record: the named fields of the record are set
update_execution_record(rec, status, message, snapshot_name) ==
    [rec EXCEPT !.status = status,
                !.error_message = message,
                !.snapshot_name = snapshot_name]

\* what a call on the storage collaborator can do
StorageOutcomes == {"ok", "raise"}

\* what a call on the notification collaborator can do: the three statuses
\* it returns, or an exception
NotificationOutcomes == {"sent", "skipped", "failed", "raise"}

SuccessReturn ==
    [status |-> "success", error |-> NoMsg, execution_id |-> ExecutionId]

FailureReturn ==
    [status |-> "failure", error |-> error_message, execution_id |-> ExecutionId]

\* lines 277-289: the record is set to success
RecordSuccess ==
    /\ pc = "record_success"
    /\ \E outcome \in StorageOutcomes :
        IF outcome = "ok"
        THEN /\ record' = update_execution_record(record, "success", NoMsg, latest_snapshot)
             /\ statusWrites' = Append(statusWrites, "success")
             /\ pc' = "notify_success"
             /\ UNCHANGED error_message
        ELSE /\ Caught(Msg("storage", "update_execution_record"))
             /\ UNCHANGED <<record, statusWrites>>
    /\ UNCHANGED <<latest_snapshot, force, incremental, base_snapshot, send_cmd,
                   receive_cmd, procs, result, notifications, notification_log,
                   returned, raised>>
    /\ UNCHANGED <<remote_listing, envVars, valVars, resVars, pipeVars, jobVars, buildVars, concVars>>

\* lines 291-323: the success notification; without a log entry to write the
\* call returns its result
NotifySuccess ==
    /\ pc = "notify_success"
    /\ \E outcome \in NotificationOutcomes :
        IF outcome = "raise"
        THEN /\ Caught(Msg("email", "send_job_success_notification"))
             /\ UNCHANGED <<notifications, returned>>
        ELSE /\ notifications' = Append(notifications,
                    [type |-> "success", status |-> outcome])
             /\ UNCHANGED error_message
             /\ IF outcome = "sent"
                THEN pc' = "log_success" /\ UNCHANGED returned
                ELSE pc' = "done" /\ returned' = SuccessReturn
    /\ UNCHANGED <<record, statusWrites, latest_snapshot, force, incremental,
                   base_snapshot, send_cmd, receive_cmd, procs, result,
                   notification_log, raised>>
    /\ UNCHANGED <<remote_listing, envVars, valVars, resVars, pipeVars, jobVars, buildVars, concVars>>

\* lines 302-323: the log entry of a success notification that was sent
LogSuccessNotification ==
    /\ pc = "log_success"
    /\ \E outcome \in StorageOutcomes :
        IF outcome = "ok"
        THEN /\ notification_log' = Append(notification_log,
                    [type |-> "success", status |-> "sent"])
             /\ pc' = "done"
             /\ returned' = SuccessReturn
             /\ UNCHANGED error_message
        ELSE /\ Caught(Msg("storage", "log_notification"))
             /\ UNCHANGED <<notification_log, returned>>
    /\ UNCHANGED <<record, statusWrites, latest_snapshot, force, incremental,
                   base_snapshot, send_cmd, receive_cmd, procs, result,
                   notifications, raised>>
    /\ UNCHANGED <<remote_listing, envVars, valVars, resVars, pipeVars, jobVars, buildVars, concVars>>

\* lines 325-339: the except clause sets the record to failure
RecordFailure ==
    /\ pc = "except"
    /\ \E outcome \in StorageOutcomes :
        IF outcome = "ok"
        THEN /\ record' = update_execution_record(record, "failure", error_message,
                              record.snapshot_name)
             /\ statusWrites' = Append(statusWrites, "failure")
             /\ pc' = "notify_failure"
             /\ UNCHANGED raised
        ELSE /\ Propagates(Msg("storage", "update_execution_record"))
             /\ UNCHANGED <<record, statusWrites>>
    /\ UNCHANGED <<latest_snapshot, force, incremental, base_snapshot, send_cmd,
                   receive_cmd, procs, result, error_message, notifications,
                   notification_log, returned>>
    /\ UNCHANGED <<remote_listing, envVars, valVars, resVars, pipeVars, jobVars, buildVars, concVars>>

\* lines 341-381: the failure notification; a skipped one has no log entry
NotifyFailure ==
    /\ pc = "notify_failure"
    /\ \E outcome \in NotificationOutcomes :
        IF outcome = "raise"
        THEN /\ Propagates(Msg("email", "send_job_failure_notification"))
             /\ UNCHANGED <<notifications, returned>>
        ELSE /\ notifications' = Append(notifications,
                    [type |-> "failure", status |-> outcome])
             /\ UNCHANGED raised
             /\ IF outcome = "skipped"
                THEN pc' = "done" /\ returned' = FailureReturn
                ELSE pc' = "log_failure" /\ UNCHANGED returned
    /\ UNCHANGED <<record, statusWrites, latest_snapshot, force, incremental,
                   base_snapshot, send_cmd, receive_cmd, procs, result,
                   error_message, notification_log>>
    /\ UNCHANGED <<remote_listing, envVars, valVars, resVars, pipeVars, jobVars, buildVars, concVars>>

\* lines 351-381: the log entry of a failure notification, sent or failed
LogFailureNotification ==
    /\ pc = "log_failure"
    /\ \E outcome \in StorageOutcomes :
        IF outcome = "ok"
        THEN /\ notification_log' = Append(notification_log,
                    [type |-> "failure",
                     status |-> notifications[Len(notifications)].status])
             /\ pc' = "done"
             /\ returned' = FailureReturn
             /\ UNCHANGED raised
        ELSE /\ Propagates(Msg("storage", "log_notification"))
             /\ UNCHANGED <<notification_log, returned>>
    /\ UNCHANGED <<record, statusWrites, latest_snapshot, force, incremental,
                   base_snapshot, send_cmd, receive_cmd, procs, result,
                   error_message, notifications>>
    /\ UNCHANGED <<remote_listing, envVars, valVars, resVars, pipeVars, jobVars, buildVars, concVars>>

RepNext ==
    \/ CreateRecord
    \/ SelectSnapshot
    \/ ProbeTarget
    \/ FindBase
    \/ BuildCommands
    \/ StartSender
    \/ StartReceiver
    \/ WaitReceiver
    \/ RecordSuccess
    \/ NotifySuccess
    \/ LogSuccessNotification
    \/ RecordFailure
    \/ NotifyFailure
    \/ LogFailureNotification

NoArgs ==
    [source |-> <<>>, target |-> <<>>, replication_type |-> "local",
     incremental |-> FALSE, recursive |-> FALSE, compression |-> "none",
     force |-> "None", remote_host |-> FALSE]

RepIdle ==
    /\ platform = "Linux"
    /\ args = NoArgs
    /\ zfsSource = <<>>
    /\ zfsTarget = <<>>
    /\ targetExists = FALSE
    /\ pc = "idle"
    /\ record = NoRecord
    /\ statusWrites = <<>>
    /\ latest_snapshot = <<>>
    /\ force = FALSE
    /\ incremental = FALSE
    /\ base_snapshot = <<>>
    /\ send_cmd = <<>>
    /\ receive_cmd = <<>>
    /\ procs = <<>>
    /\ result = NoResult
    /\ error_message = NoMsg
    /\ notifications = <<>>
    /\ notification_log = <<>>
    /\ returned = NoReturn
    /\ raised = NoMsg
    /\ remote_listing = "none"

\* -------------------------------------------------------------------------
\* Properties of execute_replication
\* -------------------------------------------------------------------------
StorageFailed == error_message.prefix = "storage" \/ raised.prefix = "storage"

\* C1: for the execution id created by the call, exactly one terminal status
\* (success or failure) is ever written to the record, on every exit path,
\* and a terminal status that was written is never overwritten.
C1_ExactlyOneTerminalWrite ==
    /\ Len(statusWrites) <= 1
    /\ (pc = "done" /\ ~StorageFailed) => Len(statusWrites) = 1

\* C2: when the sender/receiver pipe completed successfully and success was
\* recorded, the record stays success and the call returns success, whatever
\* the notification collaborator or the notification log does (no failure of
\* the record update itself being involved).
C2_NotificationNeverFailsTransfer ==
    (/\ result.set
     /\ statusWrites # <<>>
     /\ statusWrites[1] = "success"
     /\ raised.detail # "update_execution_record")
        => /\ record.status = "success"
           /\ pc = "done" => returned.status = "success"

\* C3: every call whose record was created returns a result whose status is
\* success or failure and that carries the execution id; no exception leaves
\* the call, and a failure result carries the error message.
C3_AlwaysReturnsResult ==
    (pc = "done" /\ record.status # "absent") =>
        /\ raised = NoMsg
        /\ returned.status \in {"success", "failure"}
        /\ returned.execution_id = ExecutionId
        /\ (returned.status = "failure" => returned.error # NoMsg)

NoCommonName == BareNames(zfsSource) \cap BareNames(zfsTarget) = {}

SendCmdLen ==
    3 + (IF args.recursive THEN 1 ELSE 0) + (IF args.compression # "none" THEN 2 ELSE 0)

\* C6: when the two inventories share no bare snapshot name (either may be
\* empty), base resolution yields no base, an incremental call falls back to
\* a full send (no -i in the sender argv, which ends with the chosen
\* snapshot), and the attempt has not failed when the sender is about to start.
C6_NoCommonFallsBackToFullSend ==
    (pc # "idle" /\ args.incremental /\ NoCommonName) =>
        /\ base_snapshot = <<>>
        /\ pc \in {"build", "start_send"} =>
               (~incremental /\ error_message = NoMsg /\ record.status = "running")
        /\ send_cmd # <<>> =>
               /\ FlagI \notin Range(send_cmd)
               /\ Len(send_cmd) = SendCmdLen
               /\ send_cmd[Len(send_cmd)] = latest_snapshot

C6_Witness ==
    /\ pc = "start_send"
    /\ args.incremental
    /\ NoCommonName
    /\ zfsSource # <<>>
    /\ zfsTarget # <<>>
    /\ send_cmd # <<>>

ValidSource(s) ==
    IF Contains(s, "@") THEN FullSnapshotGrammar(s) ELSE DatasetGrammar(s)

\* C7: when the source or the target identifier fails the naming grammar the
\* attempt is rejected before any side effect: no execution record exists and
\* no process was started (so no such identifier is in any command line).
C7_InvalidRejectedBeforeSideEffects ==
    (pc # "idle" /\ (~ValidSource(args.source) \/ ~DatasetGrammar(args.target))) =>
        (record.status = "absent" /\ procs = <<>>)

\* C10: the receiver argv holds -F exactly when the existence probe reported
\* the target as existing, if the caller gave no force value; with an
\* explicit force value the probe is ignored and -F is there exactly when the
\* value is True.
C10_ForceFlag ==
    receive_cmd # <<>> =>
        ((FlagF \in Range(receive_cmd)) <=>
            (IF args.force = "None"
             THEN args.target = TargetDataset /\ targetExists
             ELSE args.force = "True"))

C10_Witness ==
    /\ pc = "start_send"
    /\ args.force = "False"
    /\ args.target = TargetDataset
    /\ targetExists
    /\ FlagF \notin Range(receive_cmd)

\* -------------------------------------------------------------------------
\* The pipe executor, process by process: _execute_local_replication and
\* _execute_remote_replication.  The sender writes chunks to its stdout (the
\* pipe to the receiver) and to its stderr (a pipe whose read end the parent
\* holds and never reads); the receiver, or the ssh client in its place,
\* reads the pipe.
\* -------------------------------------------------------------------------
Executors == {"local", "remote"}

\* what one run of the sender writes, in order: "out" is a chunk on stdout,
\* "err" a chunk on stderr
SenderPrograms == ListsUpTo({"out", "err"}, MaxWrites)

\* returncode -1 stands for None (the process has not been waited for)
NotStarted(prog) == [state |-> "none", prog |-> prog, returncode |-> -1]

PipeInit ==
    /\ executor \in Executors
    /\ xpc = "popen_send"
    /\ stdout_open = FALSE
    /\ pipe = 0
    /\ stderr_pipe = 0
    /\ send_process \in {NotStarted(prog) : prog \in SenderPrograms}
    /\ receive_process = NotStarted(<<>>)
    /\ xraised = NoMsg

\* the read end of the pipe is open in the parent or in a running receiver
PipeHasReader == stdout_open \/ receive_process.state = "running"

\* the write end of the pipe is open: only the sender holds it
PipeHasWriter == send_process.state = "running"

\* lines 728-732 and 775-779: Popen of the sender with stdout=PIPE; the
\* parent holds the read end as send_process.stdout
PopenSend ==
    /\ xpc = "popen_send"
    /\ \E outcome \in {"started", "oserror"} :
        IF outcome = "started"
        THEN /\ send_process' = [send_process EXCEPT !.state = "running"]
             /\ stdout_open' = TRUE
             /\ xpc' = "popen_receive"
             /\ UNCHANGED xraised
        ELSE /\ xpc' = "raised"
             /\ xraised' = Msg("OSError", "zfs send")
             /\ UNCHANGED <<send_process, stdout_open>>
    /\ UNCHANGED <<executor, pipe, stderr_pipe, receive_process>>
    /\ UNCHANGED <<valVars, resVars, envVars, repVars, jobVars, buildVars, concVars>>

\* lines 734-739 and 781-786: Popen of the receiver (local) or of the ssh
\* client (remote) with stdin=send_process.stdout
PopenReceive ==
    /\ xpc = "popen_receive"
    /\ \E outcome \in {"started", "oserror"} :
        IF outcome = "started"
        THEN /\ receive_process' = [receive_process EXCEPT !.state = "running"]
             /\ xpc' = "close"
             /\ UNCHANGED xraised
        ELSE /\ xpc' = "raised"
             /\ xraised' = Msg("OSError", "receiver")
             /\ UNCHANGED receive_process
    /\ UNCHANGED <<executor, stdout_open, pipe, stderr_pipe, send_process>>
    /\ UNCHANGED <<valVars, resVars, envVars, repVars, jobVars, buildVars, concVars>>

\* a parent that goes on to wait with its handle still open
CloseStdout_kept ==
    /\ xpc = "close"
    /\ xpc' = "communicate"
    /\ UNCHANGED <<executor, stdout_open, pipe, stderr_pipe, send_process,
                   receive_process, xraised>>
    /\ UNCHANGED <<valVars, resVars, envVars, repVars, jobVars, buildVars, concVars>>

\* lines 741 and 788: send_process.stdout.close()
CloseStdout ==
    /\ xpc = "close"
    /\ stdout_open' = FALSE
    /\ xpc' = "communicate"
    /\ UNCHANGED <<executor, pipe, stderr_pipe, send_process, receive_process,
                   xraised>>
    /\ UNCHANGED <<valVars, resVars, envVars, repVars, jobVars, buildVars, concVars>>

\* a wait that also looks at the sender's exit status
Communicate_checks_sender ==
    /\ xpc = "communicate"
    /\ receive_process.state = "exited"
    /\ IF receive_process.returncode # 0 \/ send_process.returncode > 0
       THEN /\ xpc' = "raised"
            /\ xraised' = Msg(IF executor = "local" THEN "Receive failed: "
                                                    ELSE "Remote receive failed: ", "")
       ELSE /\ xpc' = "returned"
            /\ UNCHANGED xraised
    /\ UNCHANGED <<executor, stdout_open, pipe, stderr_pipe, send_process,
                   receive_process>>
    /\ UNCHANGED <<valVars, resVars, envVars, repVars, jobVars, buildVars, concVars>>

\* lines 742-749 and 789-796: communicate() returns once the receiver has
\* exited; its exit status alone decides between return and raise
Communicate ==
    /\ xpc = "communicate"
    /\ receive_process.state = "exited"
    /\ IF receive_process.returncode # 0
       THEN /\ xpc' = "raised"
            /\ xraised' = Msg(IF executor = "local" THEN "Receive failed: "
                                                    ELSE "Remote receive failed: ", "")
       ELSE /\ xpc' = "returned"
            /\ UNCHANGED xraised
    /\ UNCHANGED <<executor, stdout_open, pipe, stderr_pipe, send_process,
                   receive_process>>
    /\ UNCHANGED <<valVars, resVars, envVars, repVars, jobVars, buildVars, concVars>>

SenderNext(op) ==
    send_process.state = "running" /\ send_process.prog # <<>>
        /\ Head(send_process.prog) = op

\* the sender writes a chunk on the pipe: with no reader left it gets
\* SIGPIPE, with a full pipe it blocks
SenderWrite ==
    /\ SenderNext("out")
    /\ IF ~PipeHasReader
       THEN /\ send_process' = [send_process EXCEPT !.state = "sigpipe",
                                                    !.returncode = 1]
            /\ UNCHANGED pipe
       ELSE /\ pipe < PipeCapacity
            /\ pipe' = pipe + 1
            /\ send_process' = [send_process EXCEPT !.prog = Tail(@)]
    /\ UNCHANGED <<executor, xpc, stdout_open, stderr_pipe, receive_process, xraised>>
    /\ UNCHANGED <<valVars, resVars, envVars, repVars, jobVars, buildVars, concVars>>

\* the sender writes a chunk on its stderr: stderr=PIPE at lines 731 and
\* 778, and nothing reads send_process.stderr
SenderWriteErr ==
    /\ SenderNext("err")
    /\ stderr_pipe < PipeCapacity
    /\ stderr_pipe' = stderr_pipe + 1
    /\ send_process' = [send_process EXCEPT !.prog = Tail(@)]
    /\ UNCHANGED <<executor, xpc, stdout_open, pipe, receive_process, xraised>>
    /\ UNCHANGED <<valVars, resVars, envVars, repVars, jobVars, buildVars, concVars>>

\* the sender has written everything and exits
SenderExit ==
    /\ send_process.state = "running"
    /\ send_process.prog = <<>>
    /\ \E returncode \in {0, 1} :
        send_process' = [send_process EXCEPT !.state = "exited",
                                             !.returncode = returncode]
    /\ UNCHANGED <<executor, xpc, stdout_open, pipe, stderr_pipe, receive_process,
                   xraised>>
    /\ UNCHANGED <<valVars, resVars, envVars, repVars, jobVars, buildVars, concVars>>

\* the receiver reads a chunk from the pipe
ReceiverRead ==
    /\ receive_process.state = "running"
    /\ pipe > 0
    /\ pipe' = pipe - 1
    /\ UNCHANGED <<executor, xpc, stdout_open, stderr_pipe, send_process,
                   receive_process, xraised>>
    /\ UNCHANGED <<valVars, resVars, envVars, repVars, jobVars, buildVars, concVars>>

\* the receiver reads end of file (empty pipe, no writer) and exits
ReceiverFinish ==
    /\ receive_process.state = "running"
    /\ pipe = 0
    /\ ~PipeHasWriter
    /\ \E returncode \in {0, 1} :
        receive_process' = [receive_process EXCEPT !.state = "exited",
                                                   !.returncode = returncode]
    /\ UNCHANGED <<executor, xpc, stdout_open, pipe, stderr_pipe, send_process,
                   xraised>>
    /\ UNCHANGED <<valVars, resVars, envVars, repVars, jobVars, buildVars, concVars>>

\* the receiver exits before the end of the stream (destination exists,
\* connection refused)
ReceiverExitEarly ==
    /\ receive_process.state = "running"
    /\ PipeHasWriter
    /\ receive_process' = [receive_process EXCEPT !.state = "exited",
                                                  !.returncode = 1]
    /\ UNCHANGED <<executor, xpc, stdout_open, pipe, stderr_pipe, send_process,
                   xraised>>
    /\ UNCHANGED <<valVars, resVars, envVars, repVars, jobVars, buildVars, concVars>>

PipeNext ==
    \/ PopenSend
    \/ PopenReceive
    \/ CloseStdout
    \/ Communicate
    \/ SenderWrite
    \/ SenderWriteErr
    \/ SenderExit
    \/ ReceiverRead
    \/ ReceiverFinish
    \/ ReceiverExitEarly

PipeIdle ==
    /\ executor = "idle"
    /\ xpc = "idle"
    /\ stdout_open = FALSE
    /\ pipe = 0
    /\ stderr_pipe = 0
    /\ send_process = NotStarted(<<>>)
    /\ receive_process = NotStarted(<<>>)
    /\ xraised = NoMsg

\* the operating system runs every process that can take a step: the
\* parent, the sender and the receiver; only an early exit of the receiver
\* is left to chance
PipeFairness ==
    /\ WF_vars(PopenSend)
    /\ WF_vars(PopenReceive)
    /\ WF_vars(CloseStdout)
    /\ WF_vars(Communicate)
    /\ WF_vars(SenderWrite)
    /\ WF_vars(SenderWriteErr)
    /\ WF_vars(SenderExit)
    /\ WF_vars(ReceiverRead)
    /\ WF_vars(ReceiverFinish)

ReceiverGone == receive_process.state = "exited"
SenderStopped == send_process.state \in {"exited", "sigpipe"}

\* the sender waits on its stderr pipe, which is full and which nobody reads
SenderBlockedOnStderr == SenderNext("err") /\ stderr_pipe = PipeCapacity

WaitingHoldsNoHandle ==
    xpc = "communicate" =>
        /\ ~stdout_open
        /\ send_process.state # "none"
        /\ receive_process.state # "none"

JobIds == 1..MaxJobs
JobNames == {"a", "b"}

\* the keyword arguments of update_replication_job: each field is given
\* ({v}) or not ({})
Given(values) == {{}} \cup {{v} : v \in values}
UpdateSets == [id : Given(JobIds), name : Given(JobNames), enabled : Given(BOOLEAN)]
NoUpdates == [id |-> {}, name |-> {}, enabled |-> {}]

NoCall == [op |-> "none", job_id |-> 0, outcome |-> "none"]
Call(op, job_id, outcome) == [op |-> op, job_id |-> job_id, outcome |-> outcome]

\* last_run 0 and last_status "None" stand for None
NoStatus == [job_id |-> 0, last_run |-> 0, last_status |-> "None"]

\* __init__ (lines 39-40)
JobsInit ==
    /\ jobs = <<>>
    /\ issued = {}
    /\ deleted = {}
    /\ jcall = NoCall
    /\ history = <<>>
    /\ executions = <<>>
    /\ jstatus = NoStatus

\* dict.update on one field
Updated(given, old) == IF given = {} THEN old ELSE CHOOSE v \in given : TRUE

\* self._jobs[job_id].update(updates) (line 147)
dict_update(job, updates) ==
    [id |-> Updated(updates.id, job.id),
     name |-> Updated(updates.name, job.name),
     enabled |-> Updated(updates.enabled, job.enabled)]

\* the body of update_replication_job (lines 138-148): the registry after
\* the call, and how the call ends
update(job_id, updates) ==
    IF job_id \notin DOMAIN jobs THEN jobs
    ELSE [jobs EXCEPT ![job_id] = dict_update(@, updates)]

Lookup(job_id) == IF job_id \in DOMAIN jobs THEN "ok" ELSE "KeyError"

\* create_replication_job (lines 72-128); uuid4 gives an id not given before
create_replication_job ==
    \E job_id \in JobIds \ issued, name \in JobNames, enabled \in BOOLEAN :
        /\ jobs' = jobs @@ (job_id :> [id |-> job_id, name |-> name,
                                       enabled |-> enabled])
        /\ issued' = issued \cup {job_id}
        /\ jcall' = Call("create", job_id, "ok")
        /\ UNCHANGED deleted
        /\ UNCHANGED <<history, executions, jstatus>>
        /\ UNCHANGED <<valVars, resVars, envVars, repVars, pipeVars, buildVars, concVars>>

\* update_replication_job (lines 130-148)
update_replication_job ==
    \E job_id \in JobIds, updates \in UpdateSets :
        /\ jobs' = update(job_id, updates)
        /\ jcall' = Call("update", job_id, Lookup(job_id))
        /\ UNCHANGED <<issued, deleted>>
        /\ UNCHANGED <<history, executions, jstatus>>
        /\ UNCHANGED <<valVars, resVars, envVars, repVars, pipeVars, buildVars, concVars>>

\* enable_job (lines 161-163)
enable_job ==
    \E job_id \in JobIds :
        /\ jobs' = update(job_id, [NoUpdates EXCEPT !.enabled = {TRUE}])
        /\ jcall' = Call("enable", job_id, Lookup(job_id))
        /\ UNCHANGED <<issued, deleted>>
        /\ UNCHANGED <<history, executions, jstatus>>
        /\ UNCHANGED <<valVars, resVars, envVars, repVars, pipeVars, buildVars, concVars>>

\* disable_job (lines 165-167)
disable_job ==
    \E job_id \in JobIds :
        /\ jobs' = update(job_id, [NoUpdates EXCEPT !.enabled = {FALSE}])
        /\ jcall' = Call("disable", job_id, Lookup(job_id))
        /\ UNCHANGED <<issued, deleted>>
        /\ UNCHANGED <<history, executions, jstatus>>
        /\ UNCHANGED <<valVars, resVars, envVars, repVars, pipeVars, buildVars, concVars>>

\* a delete that empties the registry
delete_replication_job_clear ==
    \E job_id \in JobIds :
        /\ IF job_id \notin DOMAIN jobs
           THEN /\ jcall' = Call("delete", job_id, "KeyError")
                /\ UNCHANGED <<jobs, deleted>>
           ELSE /\ jobs' = <<>>
                /\ deleted' = deleted \cup {job_id}
                /\ jcall' = Call("delete", job_id, "ok")
        /\ UNCHANGED issued
        /\ UNCHANGED <<history, executions, jstatus>>
        /\ UNCHANGED <<valVars, resVars, envVars, repVars, pipeVars, buildVars, concVars>>

\* delete_replication_job (lines 150-159)
delete_replication_job ==
    \E job_id \in JobIds :
        /\ IF job_id \notin DOMAIN jobs
           THEN /\ jcall' = Call("delete", job_id, "KeyError")
                /\ UNCHANGED <<jobs, deleted>>
           ELSE /\ jobs' = [k \in DOMAIN jobs \ {job_id} |-> jobs[k]]
                /\ deleted' = deleted \cup {job_id}
                /\ jcall' = Call("delete", job_id, "ok")
        /\ UNCHANGED issued
        /\ UNCHANGED <<history, executions, jstatus>>
        /\ UNCHANGED <<valVars, resVars, envVars, repVars, pipeVars, buildVars, concVars>>

\* get_replication_job (lines 55-70)
get_replication_job ==
    \E job_id \in JobIds :
        /\ jcall' = Call("get", job_id, Lookup(job_id))
        /\ UNCHANGED <<jobs, issued, deleted>>
        /\ UNCHANGED <<history, executions, jstatus>>
        /\ UNCHANGED <<valVars, resVars, envVars, repVars, pipeVars, buildVars, concVars>>

JobsNext ==
    \/ create_replication_job
    \/ update_replication_job
    \/ enable_job
    \/ disable_job
    \/ delete_replication_job
    \/ get_replication_job

JobsIdle ==
    /\ jobs = <<>>
    /\ issued = {}
    /\ deleted = {}
    /\ jcall = Call("idle", 0, "none")
    /\ history = <<>>
    /\ executions = <<>>
    /\ jstatus = NoStatus

\* C18: job identity is stable: every job stored under key k has id k, the
\* stored ids are distinct, and an id that was handed out and is no longer
\* in the registry was removed by a delete_replication_job on that id.
C18_JobIdentityStable ==
    /\ \A k \in DOMAIN jobs : jobs[k].id = k
    /\ \A k1, k2 \in DOMAIN jobs : k1 # k2 => jobs[k1].id # jobs[k2].id
    /\ \A k \in issued \ DOMAIN jobs : k \in deleted

\* -------------------------------------------------------------------------
\* _build_send_command on its own, over all its arguments
\* -------------------------------------------------------------------------
CompressionMethods == {"none", "lz4", "gzip", "zstd"}

BuildArgSets ==
    [dataset : {SourceDataset},
     snapshot : {Snap(SourceDataset, n) : n \in {"2", "3"}},
     incremental : BOOLEAN,
     recursive : BOOLEAN,
     compression : CompressionMethods,
     base_snapshot : {<<>>, Snap(SourceDataset, "1"), Snap(SourceDataset, "2")}]

BuildInit ==
    /\ bArgs \in BuildArgSets
    /\ bCall = "none"
    /\ bCmd = <<>>

CallBuildSendCommand ==
    /\ bCall = "none"
    /\ bCall' = "done"
    /\ bCmd' = build_send_command(bArgs.dataset, bArgs.snapshot, bArgs.incremental,
                   bArgs.recursive, bArgs.compression, bArgs.base_snapshot)
    /\ UNCHANGED bArgs
    /\ UNCHANGED <<valVars, resVars, envVars, repVars, pipeVars, jobVars, concVars>>

BuildNext == CallBuildSendCommand

BuildIdle ==
    /\ bArgs = [dataset |-> <<>>, snapshot |-> <<>>, incremental |-> FALSE,
                recursive |-> FALSE, compression |-> "none", base_snapshot |-> <<>>]
    /\ bCall = "idle"
    /\ bCmd = <<>>

\* the argv shape the design gives, position by position; withBase says
\* whether the incremental-from flag and its base are part of it
SendShape(cmd, a, withBase) ==
    LET r == IF a.recursive THEN 1 ELSE 0
        c == IF a.compression # "none" THEN 2 ELSE 0
        i == IF withBase THEN 2 ELSE 0
    IN  /\ Len(cmd) = 3 + r + c + i
        /\ cmd[1] = ZFS
        /\ cmd[2] = SEND
        /\ r = 1 => cmd[3] = FlagR
        /\ c = 2 => cmd[3 + r] = FlagC /\ cmd[4 + r] = FlagW
        /\ i = 2 => cmd[3 + r + c] = FlagI /\ cmd[4 + r + c] = a.base_snapshot
        /\ cmd[Len(cmd)] = a.snapshot

LastArg(argv) == argv[Len(argv)]

\* a local listing driver was run and exited non-zero
LocalListingFailed ==
    \E i \in 1..Len(procs) :
        /\ procs[i].role = "list"
        /\ ZfsListSnapshots(LastArg(procs[i].argv)).returncode # 0

\* C14: when the local listing driver is run and exits non-zero (no such
\* dataset), _get_snapshots raises to its caller, so the attempt is in its
\* failure path with that error; the failure is not turned into an empty
\* inventory with which the attempt goes on.
C14_LocalListingFailureRaises ==
    LocalListingFailed => error_message # NoMsg

\* the remote probe of the target did not give a listing
RemoteListingFailed == remote_listing \in {"no_host"} \cup RemoteListingFailures

\* C15: the remote snapshot listing never raises.  Once the remote probe has
\* failed (no remote host, non-zero exit, timeout or another exception) base
\* resolution has given no base, the attempt is no longer incremental, any
\* error the attempt is in arose after the commands were built, and the
\* sender argv asks for a full stream.
C15_RemoteListingNeverRaises ==
    RemoteListingFailed =>
        /\ base_snapshot = <<>>
        /\ ~incremental
        /\ error_message # NoMsg => send_cmd # <<>>
        /\ send_cmd # <<>> => FlagI \notin Range(send_cmd)

\* the probe timed out although source and target share a snapshot name,
\* and the transfer is running as a full send
C15_Witness ==
    /\ remote_listing = "exception"
    /\ args.incremental
    /\ ~NoCommonName
    /\ pc = "wait"
    /\ FlagI \notin Range(send_cmd)

\* the option value follows a -o somewhere before the host
HasOption(argv, opt) ==
    \E i \in 1..(Len(argv) - 1) : argv[i] = FlagO /\ argv[i + 1] = opt

\* the argv ends with the host followed by the receiver argv
CarriesReceiver(argv, recv_cmd) ==
    /\ Len(argv) > Len(recv_cmd)
    /\ SubSeq(argv, Len(argv) - Len(recv_cmd) + 1, Len(argv)) = recv_cmd
    /\ argv[Len(argv) - Len(recv_cmd)] = RemoteHost

\* C16: every ssh command line that carries the receiver argv to the remote
\* host has BatchMode=yes, StrictHostKeyChecking and UserKnownHostsFile
\* options and a connect timeout, then the host, then the receiver argv
\* unchanged.
C16_TransferSshIsNonInteractive ==
    \A i \in 1..Len(procs) :
        procs[i].role = "ssh" =>
            /\ HasOption(procs[i].argv, OptBatchMode)
            /\ HasOption(procs[i].argv, OptStrictHostKey)
            /\ HasOption(procs[i].argv, OptKnownHosts)
            /\ HasOption(procs[i].argv, OptConnectTimeout)
            /\ CarriesReceiver(procs[i].argv, receive_cmd)

\* C17: whenever the notification collaborator reports status failed, a
\* notification-log entry of that type with status failed is recorded for
\* the execution, after a successful attempt as after a failed one.
C17_FailedNotificationLogged ==
    (pc = "done" /\ raised = NoMsg) =>
        \A i \in 1..Len(notifications) :
            notifications[i].status = "failed" =>
                \E j \in 1..Len(notification_log) :
                    /\ notification_log[j].type = notifications[i].type
                    /\ notification_log[j].status = "failed"

\* -------------------------------------------------------------------------
\* Two calls of execute_replication for the same target, running side by
\* side (independent request handlers), with any other actor creating or
\* destroying the target dataset in between.  Each call is followed from its
\* execution record to its terminal write; the source side and the
\* notifications are as in the single call above.
\* -------------------------------------------------------------------------
Attempts == {1, 2}

NoReceiver == [state |-> "none", returncode |-> -1]

ConcInit ==
    /\ cTargetExists \in BOOLEAN
    /\ cArgsForce \in [Attempts -> ForceValues]
    /\ cpc = [a \in Attempts |-> "create"]
    /\ cExecId = [a \in Attempts |-> 0]
    /\ cForce = [a \in Attempts |-> FALSE]
    /\ cReceiveCmd = [a \in Attempts |-> <<>>]
    /\ cReceiver = [a \in Attempts |-> NoReceiver]
    /\ cExistsAtStart = [a \in Attempts |-> FALSE]
    /\ cRecords = <<>>

\* storage.create_execution_record (lines 220-226): a new record, whose id
\* is returned and kept in the local execution_id
ConcCreateRecord(a) ==
    /\ cpc[a] = "create"
    /\ cRecords' = Append(cRecords, [status |-> "running", created_by |-> a,
                                     written_by |-> {}])
    /\ cExecId' = [cExecId EXCEPT ![a] = Len(cRecords) + 1]
    /\ cpc' = [cpc EXCEPT ![a] = "prepare"]
    /\ UNCHANGED <<cTargetExists, cArgsForce, cForce, cReceiveCmd, cReceiver,
                   cExistsAtStart>>
    /\ UNCHANGED <<valVars, resVars, envVars, repVars, pipeVars, jobVars, buildVars>>

\* lines 242-248: force as given, or the result of the existence probe
ProbedForce(a) ==
    IF cArgsForce[a] = "None" THEN cTargetExists ELSE cArgsForce[a] = "True"

\* lines 229-267: the existence probe and the receiver argv built from it
ConcPrepare(a) ==
    /\ cpc[a] = "prepare"
    /\ cForce' = [cForce EXCEPT ![a] = ProbedForce(a)]
    /\ cReceiveCmd' = [cReceiveCmd EXCEPT ![a] =
                          build_receive_command(TargetDataset, "local", ProbedForce(a))]
    /\ cpc' = [cpc EXCEPT ![a] = "start"]
    /\ UNCHANGED <<cTargetExists, cArgsForce, cExecId, cReceiver, cExistsAtStart,
                   cRecords>>
    /\ UNCHANGED <<valVars, resVars, envVars, repVars, pipeVars, jobVars, buildVars>>

\* lines 269-275 with 728-741: sender and receiver are started; nothing is
\* looked at or locked before
ConcStartReceiver(a) ==
    /\ cpc[a] = "start"
    /\ cReceiver' = [cReceiver EXCEPT ![a].state = "running"]
    /\ cExistsAtStart' = [cExistsAtStart EXCEPT ![a] = cTargetExists]
    /\ cpc' = [cpc EXCEPT ![a] = "wait"]
    /\ UNCHANGED <<cTargetExists, cArgsForce, cExecId, cForce, cReceiveCmd, cRecords>>
    /\ UNCHANGED <<valVars, resVars, envVars, repVars, pipeVars, jobVars, buildVars>>

\* the receiver exits; after a receive that worked the target exists
ConcReceiverExit(a) ==
    /\ cReceiver[a].state = "running"
    /\ \E returncode \in {0, 1} :
        /\ cReceiver' = [cReceiver EXCEPT ![a] = [state |-> "exited",
                                                  returncode |-> returncode]]
        /\ cTargetExists' = IF returncode = 0 THEN TRUE ELSE cTargetExists
    /\ UNCHANGED <<cArgsForce, cpc, cExecId, cForce, cReceiveCmd, cExistsAtStart,
                   cRecords>>
    /\ UNCHANGED <<valVars, resVars, envVars, repVars, pipeVars, jobVars, buildVars>>

TerminalStatus(a) == IF cReceiver[a].returncode = 0 THEN "success" ELSE "failure"

\* a terminal write that goes to the newest record in storage
ConcFinish_newest(a) ==
    /\ cpc[a] = "wait"
    /\ cReceiver[a].state = "exited"
    /\ cRecords' = [cRecords EXCEPT ![Len(cRecords)] =
                       [@ EXCEPT !.status = TerminalStatus(a),
                                 !.written_by = @ \cup {a}]]
    /\ cpc' = [cpc EXCEPT ![a] = "done"]
    /\ UNCHANGED <<cTargetExists, cArgsForce, cExecId, cForce, cReceiveCmd,
                   cReceiver, cExistsAtStart>>
    /\ UNCHANGED <<valVars, resVars, envVars, repVars, pipeVars, jobVars, buildVars>>

\* lines 742-749 with 277-289 and 325-339: communicate() has returned and
\* update_execution_record(execution_id=execution_id, ...) sets the status
ConcFinish(a) ==
    /\ cpc[a] = "wait"
    /\ cReceiver[a].state = "exited"
    /\ cRecords' = [cRecords EXCEPT ![cExecId[a]] =
                       [@ EXCEPT !.status = TerminalStatus(a),
                                 !.written_by = @ \cup {a}]]
    /\ cpc' = [cpc EXCEPT ![a] = "done"]
    /\ UNCHANGED <<cTargetExists, cArgsForce, cExecId, cForce, cReceiveCmd,
                   cReceiver, cExistsAtStart>>
    /\ UNCHANGED <<valVars, resVars, envVars, repVars, pipeVars, jobVars, buildVars>>

\* any other actor creates or destroys the target dataset
OtherActor ==
    /\ cTargetExists' = ~cTargetExists
    /\ \E a \in Attempts : cpc[a] # "done"
    /\ UNCHANGED <<cArgsForce, cpc, cExecId, cForce, cReceiveCmd, cReceiver,
                   cExistsAtStart, cRecords>>
    /\ UNCHANGED <<valVars, resVars, envVars, repVars, pipeVars, jobVars, buildVars>>

ConcNext ==
    \/ \E a \in Attempts : ConcCreateRecord(a)
    \/ \E a \in Attempts : ConcPrepare(a)
    \/ \E a \in Attempts : ConcStartReceiver(a)
    \/ \E a \in Attempts : ConcReceiverExit(a)
    \/ \E a \in Attempts : ConcFinish(a)
    \/ OtherActor

ConcIdle ==
    /\ cTargetExists = FALSE
    /\ cArgsForce = <<>>
    /\ cpc = <<>>
    /\ cExecId = <<>>
    /\ cForce = <<>>
    /\ cReceiveCmd = <<>>
    /\ cReceiver = <<>>
    /\ cExistsAtStart = <<>>
    /\ cRecords = <<>>

\* C21: attempts are not serialized, and each attempt finalizes only its own
\* execution record: a record is written only by the call that created it,
\* and once a call is done its own record holds the status its own receiver
\* gave.
C21_OwnRecordOnly ==
    /\ \A i \in 1..Len(cRecords) :
           cRecords[i].written_by \subseteq {cRecords[i].created_by}
    /\ \A a \in Attempts :
           cpc[a] = "done" =>
               /\ cRecords[cExecId[a]].created_by = a
               /\ cRecords[cExecId[a]].status = TerminalStatus(a)

\* both calls have a receiver running against the target at the same time
C21_Witness ==
    /\ \A a \in Attempts : cReceiver[a].state = "running"
    /\ \A a \in Attempts : LastArg(cReceiveCmd[a]) = TargetDataset

ExecutionStatuses == {"success", "failure"}

\* execute_replication with job_id given (lines 185-381), start to end: the
\* call starts (line 217), ends with a terminal status (lines 312-323 or
\* 372-381), and does not touch self._history anywhere
execute_replication ==
    /\ Len(executions) < MaxExecutions
    /\ \E job_id \in JobIds, status \in ExecutionStatuses :
        /\ executions' = Append(executions,
               [job_id |-> job_id, started_at |-> Len(executions) + 1,
                status |-> status])
        /\ jcall' = Call("execute", job_id, status)
    /\ UNCHANGED <<jobs, issued, deleted, history, jstatus>>
    /\ UNCHANGED <<valVars, resVars, envVars, repVars, pipeVars, buildVars, concVars>>

\* the entries of a history list that belong to a job
JobHistory(entries, job_id) ==
    LET OfJob(h) == h.job_id = job_id
    IN  SelectSeq(entries, OfJob)

\* last_run and last_status as lines 396-404 take them from a history list
StatusFrom(job_history, job_id) ==
    IF job_history = <<>>
    THEN [job_id |-> job_id, last_run |-> 0, last_status |-> "None"]
    ELSE [job_id |-> job_id,
          last_run |-> job_history[Len(job_history)].started_at,
          last_status |-> job_history[Len(job_history)].status]

\* get_replication_status (lines 383-406)
get_replication_status ==
    \E job_id \in JobIds :
        /\ jcall' = Call("status", job_id, Lookup(job_id))
        /\ jstatus' = IF job_id \in DOMAIN jobs
                      THEN StatusFrom(JobHistory(history, job_id), job_id)
                      ELSE jstatus
        /\ UNCHANGED <<jobs, issued, deleted, history, executions>>
        /\ UNCHANGED <<valVars, resVars, envVars, repVars, pipeVars, buildVars, concVars>>

\* create_replication_job (lines 72-128), as in the registry above
StatusCreateJob ==
    \E job_id \in JobIds \ issued :
        /\ jobs' = jobs @@ (job_id :> [id |-> job_id, name |-> "a",
                                       enabled |-> TRUE])
        /\ issued' = issued \cup {job_id}
        /\ jcall' = Call("create", job_id, "ok")
        /\ UNCHANGED <<deleted, history, executions, jstatus>>
        /\ UNCHANGED <<valVars, resVars, envVars, repVars, pipeVars, buildVars, concVars>>

StatusNext ==
    \/ StatusCreateJob
    \/ execute_replication
    \/ get_replication_status

\* C24: once execute_replication calls with job_id = j have completed,
\* get_replication_status(j) reports the start time and the terminal status
\* of the most recent of them, and none only when j was never executed.
C24_StatusReportsLastExecution ==
    (jcall.op = "status" /\ jcall.outcome = "ok") =>
        jstatus = StatusFrom(JobHistory(executions, jcall.job_id), jcall.job_id)

LookupCalls == {"get", "update", "enable", "disable", "delete"}

UnknownIdStep ==
    (jcall'.op \in LookupCalls /\ jcall'.job_id \notin DOMAIN jobs) =>
        /\ jcall'.outcome = "KeyError"
        /\ jobs' = jobs

DeleteStep ==
    (jcall'.op = "delete" /\ jcall'.job_id \in DOMAIN jobs) =>
        /\ jcall'.outcome = "ok"
        /\ DOMAIN jobs' = DOMAIN jobs \ {jcall'.job_id}
        /\ \A k \in DOMAIN jobs' : jobs'[k] = jobs[k]

\* C23: get, update, enable, disable and delete called with an id that is
\* not in the registry end with KeyError and leave the registry as it was;
\* delete on an id that is in the registry removes that job and leaves every
\* other job as it was.
C23_UnknownIdAndDelete == [][UnknownIdStep /\ DeleteStep]_vars

\* a call failed with KeyError on a registry that still holds a job after
\* another one was deleted
C23_Witness ==
    /\ jcall.outcome = "KeyError"
    /\ jcall.job_id \in deleted
    /\ DOMAIN jobs # {}

\* the notifications that went out
SentNotifications == {i \in 1..Len(notifications) : notifications[i].status = "sent"}

\* C25: for each attempt at most one notification is dispatched; a success
\* notification goes out only after the record was set to success, a failure
\* notification only after it was set to failure, and the one that went out
\* is of the status the record ends with.
C25_OneMatchingNotification ==
    /\ Cardinality(SentNotifications) <= 1
    /\ \A i \in SentNotifications :
           /\ notifications[i].type \in Range(statusWrites)
           /\ pc = "done" => notifications[i].type = record.status

\* where a snapshot stands in the source inventory (oldest first); 0 if absent
SourcePosition(snapshot) ==
    IF \E i \in 1..Len(zfsSource) : zfsSource[i] = snapshot
    THEN CHOOSE i \in 1..Len(zfsSource) : zfsSource[i] = snapshot
    ELSE 0

\* C26: in every attempt that sends incrementally the incremental base does
\* not come after the snapshot being sent in the source inventory order,
\* also when the source is given as dataset@name and is not the newest.
C26_BaseNotAfterSent ==
    (send_cmd # <<>> /\ FlagI \in Range(send_cmd)
        /\ SourcePosition(latest_snapshot) > 0)
        => SourcePosition(base_snapshot) <= SourcePosition(latest_snapshot)

\* the text before '@' in a snapshot identifier
DatasetPart(snapshot) == split(snapshot, "@")[1]

\* C27: the snapshot that is sent and the incremental base belong to the
\* source dataset itself: their dataset part equals the source dataset,
\* also when child datasets of the source have snapshots in the listing.
C27_SentSnapshotsOfSourceDataset ==
    send_cmd # <<>> =>
        /\ DatasetPart(latest_snapshot) = SourceDatasetOf(args.source)
        /\ FlagI \in Range(send_cmd)
              => DatasetPart(base_snapshot) = SourceDatasetOf(args.source)

\* C28: the two full-snapshot validators agree on every string: the one of
\* ZFSSnapshotService (split on the last '@', validate each half) accepts a
\* string exactly when the one of ZFSDatasetService (one pattern over the
\* whole string) accepts it.
C28_FullSnapshotValidatorsAgree ==
    /\ vCall = "validate_full_snapshot_name"
          => (vOut = "ok" <=> ds_validate_snapshot_name(vName))
    /\ vCall = "ds_validate_snapshot_name"
          => (vOut = "ok" <=> validate_full_snapshot_name(vName))

\* C29: an attempt cannot deadlock on an unread stream.  With a sender that
\* exits once its output is taken and a receiver that exits at the end of
\* its input, the executor eventually returns or raises, and the sender does
\* not stay blocked for ever on its error stream, whatever it writes there.
C29_NoDeadlockOnUnreadStream ==
    /\ <>(xpc \in {"returned", "raised"})
    /\ ~<>[]SenderBlockedOnStderr

\* C30: when force is not given explicitly, the receiver argv contains the
\* force flag exactly when the target dataset exists at the moment the
\* receiver process is started, whatever another attempt or any other actor
\* does to the target between the existence probe and that moment.
C30_ForceMatchesTargetAtStart ==
    \A a \in Attempts :
        (cReceiver[a].state # "none" /\ cArgsForce[a] = "None") =>
            ((FlagF \in Range(cReceiveCmd[a])) <=> cExistsAtStart[a])

ReceiverFailed ==
    error_message.prefix \in {"Receive failed: ", "Remote receive failed: "}

\* C11: when the receiver (local) or the ssh client (remote) exits non-zero,
\* the attempt ends with the record in status failure and a returned result
\* of status failure; the recorded error message carries the receiver's
\* stderr as captured, and its stage (receive or remote receive) can be told.
C11_ReceiverFailureRecorded ==
    (pc = "done" /\ ReceiverFailed /\ raised.detail # "update_execution_record") =>
        /\ record.status = "failure"
        /\ returned.status = "failure"
        /\ record.error_message.detail = error_message.detail
        /\ record.error_message.prefix =
               (IF IsLocal THEN "Receive failed: " ELSE "Remote receive failed: ")
        /\ returned.error = record.error_message

Started(roles) == Cardinality({i \in 1..Len(procs) : procs[i].role \in roles})

\* C20: no retries inside the pipe executor: within one call of
\* execute_replication the sender is started at most once and the receiver
\* (or the ssh client) at most once, also after either has failed.
C20_NoRetries ==
    /\ Started({"send"}) <= 1
    /\ Started({"receive", "ssh"}) <= 1

\* the receiver failed, the call has ended, and each process was started once
C20_Witness ==
    /\ pc = "done"
    /\ ReceiverFailed
    /\ returned.status = "failure"
    /\ Started({"send"}) = 1
    /\ Started({"receive", "ssh"}) = 1

InitValidate == ValInit /\ ResIdle /\ RepIdle /\ PipeIdle /\ JobsIdle /\ BuildIdle /\ ConcIdle

SpecValidate == InitValidate /\ [][ValNext]_vars

InitResolve == ResInit /\ ValIdle /\ RepIdle /\ PipeIdle /\ JobsIdle /\ BuildIdle /\ ConcIdle

SpecResolve == InitResolve /\ [][ResNext]_vars

InitPipe == PipeInit /\ ValIdle /\ ResIdle /\ RepIdle /\ JobsIdle /\ BuildIdle /\ ConcIdle

SpecPipe == InitPipe /\ [][PipeNext]_vars

FairSpecPipe == InitPipe /\ [][PipeNext]_vars /\ PipeFairness

InitJobs == JobsInit /\ ValIdle /\ ResIdle /\ RepIdle /\ PipeIdle /\ BuildIdle /\ ConcIdle

SpecJobs == InitJobs /\ [][JobsNext]_vars

InitBuild == BuildInit /\ ValIdle /\ ResIdle /\ RepIdle /\ PipeIdle /\ JobsIdle /\ ConcIdle

SpecBuild == InitBuild /\ [][BuildNext]_vars

InitConcurrent == ConcInit /\ ValIdle /\ ResIdle /\ RepIdle /\ PipeIdle /\ JobsIdle /\ BuildIdle

SpecConcurrent == InitConcurrent /\ [][ConcNext]_vars

SpecStatus == InitJobs /\ [][StatusNext]_vars

Init == RepInit /\ ValIdle /\ ResIdle /\ PipeIdle /\ JobsIdle /\ BuildIdle /\ ConcIdle

Next == RepNext

Spec == Init /\ [][Next]_vars
====
